---- MODULE Spec2Model ----
\* Logistics clean-up and reconciliation (src/main.py): dedup, plan_assignments
\* and reconcile, each modelled as the loop its code runs, one action per
\* loop iteration.  Python strings are sequences of code points, so that
\* lower(), upper() and the identifier clean-up are computed, not assumed.
EXTENDS Integers, Sequences, FiniteSets, TLC

\* ------------------------------------------------------------------ bounds
\* Longest order list given to plan_assignments.
MaxOrders == 2
\* Longest order list given to dedup.
MaxRecords == 4
\* Longest scan log given to reconcile.
MaxRows == 2

\* --------------------------------------------------------------- constants
\* c.get("priority", 10**9): the rank of a courier that declares no priority.
DefaultPriority == 1000000000

\* ------------------------------------------------------------ string data
\* "COD", "cod", "Prepaid"
S_COD == <<67, 79, 68>>
S_cod == <<99, 111, 100>>
S_Prepaid == <<80, 114, 101, 112, 97, 105, 100>>
\* "Fragile", "fragile", "standard"
S_Fragile == <<70, 114, 97, 103, 105, 108, 101>>
S_fragile == <<102, 114, 97, 103, 105, 108, 101>>
S_standard == <<115, 116, 97, 110, 100, 97, 114, 100>>
\* "Giza", "giza", "Dokki"
S_Giza == <<71, 105, 122, 97>>
S_giza == <<103, 105, 122, 97>>
S_Dokki == <<68, 111, 107, 107, 105>>
\* "C1", "C2", "C3"
S_C1 == <<67, 49>>
S_C2 == <<67, 50>>
S_C3 == <<67, 51>>
\* "A", "B", "C", "D"
S_A == <<65>>
S_B == <<66>>
S_C == <<67>>
S_D == <<68>>

\* "a", " b_", "_": scan identifiers as a courier's device may send them
S_a == <<97>>
S_b_padded == <<32, 98, 95>>
S_underscore == <<95>>
\* "X", "Y": addresses
S_X == <<88>>
S_Y == <<89>>

\* str.lower() and str.upper() on ASCII text.
LowerChar(ch) == IF ch >= 65 /\ ch <= 90 THEN ch + 32 ELSE ch
UpperChar(ch) == IF ch >= 97 /\ ch <= 122 THEN ch - 32 ELSE ch
Lower(s) == [i \in DOMAIN s |-> LowerChar(s[i])]
Upper(s) == [i \in DOMAIN s |-> UpperChar(s[i])]

\* str.strip(): drop the white space at both ends.
IsSpace(ch) == ch \in {9, 10, 11, 12, 13, 32}
RECURSIVE Strip(_)
Strip(s) ==
    IF s = <<>> THEN s
    ELSE IF IsSpace(s[1]) THEN Strip(Tail(s))
    ELSE IF IsSpace(s[Len(s)]) THEN Strip(SubSeq(s, 1, Len(s) - 1))
    ELSE s

\* Python's < on strings: by code point, a proper prefix first.
StrLess(a, b) ==
    \E i \in 1..(Len(b)) :
        /\ \A j \in 1..(i - 1) : j <= Len(a) /\ a[j] = b[j]
        /\ i > Len(a) \/ (i <= Len(a) /\ a[i] < b[i])

\* sorted(set(...)) of strings.
RECURSIVE SortedSet(_)
SortedSet(S) ==
    IF S = {} THEN <<>>
    ELSE LET m == CHOOSE x \in S : \A y \in S : x = y \/ StrLess(x, y)
         IN <<m>> \o SortedSet(S \ {m})

Range(list) == {list[i] : i \in DOMAIN list}

\* x in list
InList(x, list) == \E i \in DOMAIN list : list[i] = x

\* Python's < on tuples of integers of equal length.
TupleLess(a, b) ==
    \E i \in DOMAIN a :
        /\ a[i] < b[i]
        /\ \A j \in 1..(i - 1) : a[j] = b[j]

\* sorted(list, key = ...): Python's sort is stable.  keys[i] is the key of
\* list[i].  Insert an element behind every one whose key is not greater.
InsertByKey(sorted, x) ==
    LET later == {i \in DOMAIN sorted : TupleLess(x.key, sorted[i].key)}
        pos == IF later = {} THEN Len(sorted) + 1
               ELSE CHOOSE i \in later : \A j \in later : i <= j
    IN SubSeq(sorted, 1, pos - 1) \o <<x>> \o SubSeq(sorted, pos, Len(sorted))

RECURSIVE SortPairs(_)
SortPairs(pairs) ==
    IF pairs = <<>> THEN <<>>
    ELSE InsertByKey(SortPairs(SubSeq(pairs, 1, Len(pairs) - 1)),
                     pairs[Len(pairs)])

SortedByKey(list, keys) ==
    LET done == SortPairs([i \in DOMAIN list |-> [key |-> keys[i], val |-> list[i]]])
    IN [i \in DOMAIN done |-> done[i].val]

\* ------------------------------------------------------------------ state
VARIABLES
    pc,                  \* which function runs, and how it has ended
    couriers,            \* plan_assignments: the roster, as given
    orders,              \* plan_assignments: the orders the loop has taken so far
    assignments,         \* plan_assignments: list of {orderId, courierId}
    unassigned,          \* plan_assignments: list of order identifiers
    unassigned_reasons,  \* plan_assignments: dict identifier -> reason
    capacity_usage,      \* plan_assignments: dict courier identifier -> load
    dedup_orders,        \* dedup: the orders the loop has taken so far
    seen,                \* dedup: dict identifier -> order, in insertion order
    warnings,            \* dedup: list of messages
    rec_orders,          \* reconcile: the clean orders
    rec_assignments,     \* reconcile: the planned assignments
    log_rows,            \* reconcile: the scan rows the loop has taken so far
    delivered_orders,    \* reconcile: set of scanned identifiers
    unexpected,          \* reconcile: list
    misassigned,         \* reconcile: list
    late,                \* reconcile: list
    duplicate,           \* reconcile: list
    seen_scan,           \* reconcile: set
    report               \* reconcile: the dict returned

planVars == <<couriers, orders, assignments, unassigned, unassigned_reasons,
              capacity_usage>>
dedupVars == <<dedup_orders, seen, warnings>>
recVars == <<rec_orders, rec_assignments, log_rows, delivered_orders,
             unexpected, misassigned, late, duplicate, seen_scan, report>>
vars == <<pc, planVars, dedupVars, recVars>>

\* The state of a function that is not running.
PlanIdle ==
    /\ couriers = <<>> /\ orders = <<>> /\ assignments = <<>>
    /\ unassigned = <<>> /\ unassigned_reasons = <<>> /\ capacity_usage = <<>>
DedupIdle == dedup_orders = <<>> /\ seen = <<>> /\ warnings = <<>>
RecIdle ==
    /\ rec_orders = <<>> /\ rec_assignments = <<>> /\ log_rows = <<>>
    /\ delivered_orders = {} /\ unexpected = <<>> /\ misassigned = <<>>
    /\ late = <<>> /\ duplicate = <<>> /\ seen_scan = {} /\ report = <<>>

\* ------------------------------------------------------- plan_assignments
\* A courier record.  priority is <<>> when the key is absent, <<p>> when it
\* is declared.  Courier identifiers are distinct, capacities are not negative.
\* An order record is as dedup hands it over: the identifiers are distinct,
\* and the planner only compares them for equality, so the i-th order carries
\* the i-th identifier.  weight is a number, or text that is not a number.
Capacities == {1, 3}
ExclusionLists == {<<>>, <<S_Fragile>>}
OrderIdList == <<S_A, S_B, S_C, S_D>>
TextWeight == [num |-> FALSE, val |-> 0]
NumberWeight(n) == [num |-> TRUE, val |-> n]

\* Inputs that exercise the four filters: two couriers in every combination
\* of zone, COD acceptance, exclusion and capacity, the second one preferred;
\* orders in every combination of city, payment and product.
FilterRosters ==
    {<<c1, c2>> :
        c1 \in [courierid : {S_C1}, zonescovered : {<<S_Giza>>, <<S_Dokki>>},
                acceptscod : BOOLEAN, dailycapacity : Capacities,
                priority : {<<2>>}, exclusions : ExclusionLists],
        c2 \in [courierid : {S_C2}, zonescovered : {<<S_Giza>>, <<S_Dokki>>},
                acceptscod : BOOLEAN, dailycapacity : Capacities,
                priority : {<<1>>}, exclusions : ExclusionLists]}
FilterOrders ==
    [orderid : Range(OrderIdList), city : {S_Giza, S_giza},
     paymenttype : {S_COD, S_Prepaid}, producttype : {S_fragile, S_standard},
     weight : {NumberWeight(2), TextWeight}]

\* Inputs that exercise the load and the selection: three couriers of one
\* zone in every combination of declared, undeclared, equal and very large
\* priority and of capacity; orders of several weights.
Priorities == {<<>>, <<1>>, <<2>>, <<DefaultPriority + 1>>}
SelectRosters ==
    {<<c1, c2, c3>> :
        c1 \in [courierid : {S_C1}, zonescovered : {<<S_Giza>>},
                acceptscod : {TRUE}, dailycapacity : Capacities,
                priority : Priorities, exclusions : ExclusionLists],
        c2 \in [courierid : {S_C2}, zonescovered : {<<S_Giza>>},
                acceptscod : {TRUE}, dailycapacity : Capacities,
                priority : Priorities, exclusions : ExclusionLists],
        c3 \in [courierid : {S_C3}, zonescovered : {<<S_Giza>>},
                acceptscod : {TRUE}, dailycapacity : {3},
                priority : {<<>>, <<1>>}, exclusions : {<<>>}]}
SelectOrders ==
    [orderid : Range(OrderIdList), city : {S_Giza},
     paymenttype : {S_COD}, producttype : {S_fragile, S_standard},
     weight : {NumberWeight(1), NumberWeight(2), TextWeight}]

\* c.get("priority", 10**9)
PriorityOf(c) == IF c.priority = <<>> THEN DefaultPriority ELSE c.priority[1]

\* couriers_sorted = sorted(couriers, key=lambda c: c.get("priority", 10**9))
couriers_sorted ==
    SortedByKey(couriers, [i \in DOMAIN couriers |-> <<PriorityOf(couriers[i])>>])

\* in_zone = [c for c in couriers_sorted if city in c.get("zonescovered", [])]
ZoneFilter(cands, o) ==
    SelectSeq(cands, LAMBDA c : InList(o.city, c.zonescovered))

\* A COD test that compares the payment type as written.
CodFilterAsWritten(cands, o) ==
    SelectSeq(cands, LAMBDA c : o.paymenttype # S_cod \/ c.acceptscod)

\* cod_ok = [c for c in in_zone if (payment != "cod") or c.get("acceptscod", False)]
CodFilter(cands, o) ==
    SelectSeq(cands, LAMBDA c : Lower(o.paymenttype) # S_cod \/ c.acceptscod)

\* An exclusion test run over the whole roster, not over the COD survivors.
ExclusionFilterOfRoster(cands, o) ==
    SelectSeq(couriers_sorted, LAMBDA c :
        InList(o.city, c.zonescovered)
        /\ ~InList(Lower(o.producttype),
                   [i \in DOMAIN c.exclusions |-> Lower(c.exclusions[i])]))

\* excl_ok = [c for c in cod_ok
\*            if product not in [str(e).lower() for e in c.get("exclusions", [])]]
ExclusionFilter(cands, o) ==
    SelectSeq(cands, LAMBDA c :
        ~InList(Lower(o.producttype),
                [i \in DOMAIN c.exclusions |-> Lower(c.exclusions[i])]))

\* A capacity test that leaves the order's weight out.
CapacityFilterOfLoad(cands, o, usage) ==
    SelectSeq(cands, LAMBDA c : usage[c.courierid] <= c.dailycapacity)

\* cap_ok = [c for c in excl_ok
\*           if capacity_usage[c["courierid"]] + weight <= float(c.get("dailycapacity") or 0)]
CapacityFilter(cands, o, usage) ==
    SelectSeq(cands, LAMBDA c :
        usage[c.courierid] + o.weight.val <= c.dailycapacity)

\* A selection by priority alone.
ChosenByPriority(cap_ok, usage) == cap_ok[1]

\* chosen = sorted(cap_ok, key=lambda c: (capacity_usage[...], c.get("priority", 10**9)))[0]
Chosen(cap_ok, usage) ==
    SortedByKey(cap_ok,
        [i \in DOMAIN cap_ok |->
            <<usage[cap_ok[i].courierid], PriorityOf(cap_ok[i])>>])[1]

\* A rejection that records the reason and forgets the list.
RejectReasonOnly(o, reason) ==
    /\ unassigned_reasons' =
           [k \in DOMAIN unassigned_reasons \cup {o.orderid} |->
               IF k = o.orderid THEN reason ELSE unassigned_reasons[k]]
    /\ UNCHANGED <<unassigned, assignments, capacity_usage>>
    /\ pc' = pc

\* unassigned.append(oid); unassigned_reasons[oid] = reason; continue
Reject(o, reason) ==
    /\ unassigned' = Append(unassigned, o.orderid)
    /\ unassigned_reasons' =
           [k \in DOMAIN unassigned_reasons \cup {o.orderid} |->
               IF k = o.orderid THEN reason ELSE unassigned_reasons[k]]
    /\ UNCHANGED <<assignments, capacity_usage>>
    /\ pc' = pc

\* An assignment that overwrites the load with the weight.
AssignOverwrite(o, chosen) ==
    /\ assignments' = Append(assignments,
           [orderId |-> o.orderid, courierId |-> chosen.courierid])
    /\ capacity_usage' =
           [capacity_usage EXCEPT ![chosen.courierid] = o.weight.val]
    /\ UNCHANGED <<unassigned, unassigned_reasons, pc>>

\* assignments.append({...}); capacity_usage[chosen["courierid"]] += weight
Assign(o, chosen) ==
    /\ assignments' = Append(assignments,
           [orderId |-> o.orderid, courierId |-> chosen.courierid])
    /\ capacity_usage' =
           [capacity_usage EXCEPT ![chosen.courierid] = @ + o.weight.val]
    /\ UNCHANGED <<unassigned, unassigned_reasons, pc>>

\* One iteration of "for o in orders".  float() of a weight that is not a number raises ValueError,
\* which ends the run.
PlanOrder(o) ==
    /\ pc = "plan"
    /\ Len(orders) < MaxOrders
    /\ o.orderid = OrderIdList[Len(orders) + 1]
    /\ orders' = Append(orders, o)
    /\ UNCHANGED <<couriers, dedupVars, recVars>>
    /\ IF ~o.weight.num
       THEN /\ pc' = "raised"
            /\ UNCHANGED <<assignments, unassigned, unassigned_reasons,
                           capacity_usage>>
       ELSE LET in_zone == ZoneFilter(couriers_sorted, o)
                cod_ok == CodFilter(in_zone, o)
                excl_ok == ExclusionFilter(cod_ok, o)
                cap_ok == CapacityFilter(excl_ok, o, capacity_usage)
            IN  IF in_zone = <<>>
                THEN Reject(o, <<"Zone not covered">>)
                ELSE IF Lower(o.paymenttype) = S_cod /\ cod_ok = <<>>
                THEN Reject(o, <<"COD not accepted">>)
                ELSE IF excl_ok = <<>>
                THEN Reject(o, <<"Excluded product type: ", o.producttype>>)
                ELSE IF cap_ok = <<>>
                THEN Reject(o, <<"Capacity exceeded">>)
                ELSE Assign(o, Chosen(cap_ok, capacity_usage))

InitPlanWith(rosters) ==
    /\ pc = "plan"
    /\ couriers \in rosters
    /\ orders = <<>>
    /\ assignments = <<>>
    /\ unassigned = <<>>
    /\ unassigned_reasons = <<>>
    /\ capacity_usage =
           [id \in {couriers[i].courierid : i \in DOMAIN couriers} |-> 0]
    /\ DedupIdle /\ RecIdle

InitPlan == InitPlanWith(FilterRosters)
InitSelect == InitPlanWith(SelectRosters)

\* The loop ends when the list is exhausted, and the function then returns
\* the four values as they stand: every state with pc = "plan" is the result
\* of the run over the orders taken so far.
NextPlan == \E o \in FilterOrders : PlanOrder(o)
NextSelect == \E o \in SelectOrders : PlanOrder(o)

SpecPlan == InitPlan /\ [][NextPlan]_vars
SpecSelect == InitSelect /\ [][NextSelect]_vars

\* ------------------------------------------------------------------ dedup
\* An order as normalize_orders hands it over: its identifier and its
\* address, stripped; "" is a blank address.
DedupIds == {S_A, S_B}
Addresses == {<<>>, S_X, S_Y}
DedupRecords == [orderid : DedupIds, address : Addresses]

\* oid in seen; seen[oid]
InSeen(oid) == \E i \in DOMAIN seen : seen[i].orderid = oid
SeenAt(oid) == seen[CHOOSE i \in DOMAIN seen : seen[i].orderid = oid]

\* A dict update that lets a later record replace the one kept.
RetainLast(o) ==
    IF ~InSeen(o.orderid) THEN Append(seen, o)
    ELSE [i \in DOMAIN seen |-> IF seen[i].orderid = o.orderid THEN o ELSE seen[i]]

\* if oid not in seen: seen[oid] = o
Retain(o) == IF ~InSeen(o.orderid) THEN Append(seen, o) ELSE seen

\* A conflict test that counts a blank address as an address.
ConflictsWithBlank(o) ==
    /\ InSeen(o.orderid)
    /\ o.address # SeenAt(o.orderid).address

\* else: if o.get("address") and seen[oid].get("address")
\*          and o["address"] != seen[oid]["address"]
Conflicts(o) ==
    /\ InSeen(o.orderid)
    /\ o.address # <<>>
    /\ SeenAt(o.orderid).address # <<>>
    /\ o.address # SeenAt(o.orderid).address

\* One iteration of "for o in orders": keep the first record of an
\* identifier; warn when a later one and the one kept both carry an address
\* and the two differ.
DedupOrder(o) ==
    /\ pc = "dedup"
    /\ Len(dedup_orders) < MaxRecords
    /\ dedup_orders' = Append(dedup_orders, o)
    /\ seen' = Retain(o)
    /\ warnings' =
           IF Conflicts(o)
           THEN Append(warnings, <<"Conflicting address for order ", o.orderid>>)
           ELSE warnings
    /\ UNCHANGED <<pc, planVars, recVars>>

\* return list(seen.values()), warnings: the result of the run over the orders
\* taken so far is seen, in its order, and warnings.
InitDedup ==
    /\ pc = "dedup"
    /\ dedup_orders = <<>> /\ seen = <<>> /\ warnings = <<>>
    /\ PlanIdle /\ RecIdle

NextDedup == \E o \in DedupRecords : DedupOrder(o)

SpecDedup == InitDedup /\ [][NextDedup]_vars

\* -------------------------------------------------------------- reconcile
\* A deadline or a scan time: blank, text that is not "%Y-%m-%d %H:%M", or
\* text that strptime parses to the minute at.
TimeBlank == [kind |-> "blank", at |-> 0]
TimeJunk == [kind |-> "junk", at |-> 0]
TimeAt(n) == [kind |-> "time", at |-> n]

\* Two clean orders.  The first has a deadline that parses, the second has
\* not; an identifier may be lower case, or blank.
RecOrderLists ==
    {<<o1, o2>> :
        o1 \in [orderid : {S_A, S_a}, deadline : {TimeAt(1)}],
        o2 \in [orderid : {S_B, <<>>}, deadline : {TimeJunk, TimeBlank}]}

\* The plan for them: each order is assigned, or is not.
RecAssignmentLists(os) ==
    {SelectSeq(<<[orderId |-> os[1].orderid, courierId |-> S_C1],
                 [orderId |-> os[2].orderid, courierId |-> S_C2]>>,
               LAMBDA a : a.orderId \in keep) :
        keep \in SUBSET {os[1].orderid, os[2].orderid}}

ScanRows ==
    [orderid : {S_a, S_b_padded, S_underscore}, courierid : {S_C1, S_C2},
     deliveredat : {TimeBlank, TimeJunk, TimeAt(1), TimeAt(2)}]

\* re.sub(r"[^A-Za-z0-9-]", "", (row.get("orderid") or "").upper().strip())
IsIdChar(ch) ==
    \/ ch >= 65 /\ ch <= 90
    \/ ch >= 97 /\ ch <= 122
    \/ ch >= 48 /\ ch <= 57
    \/ ch = 45
CleanId(raw) == SelectSeq(Strip(Upper(raw)), IsIdChar)

\* order_ids = {o["orderid"] for o in orders_l if o.get("orderid")}
order_ids == {rec_orders[i].orderid : i \in {j \in DOMAIN rec_orders :
                                                rec_orders[j].orderid # <<>>}}

\* planned_by_order = {a["orderid"]: a["courierid"] for a in assignments_l};
\* planned_by_order.get(oid): the last entry for oid, "" standing for None.
PlannedCourier(oid) ==
    LET at == {i \in DOMAIN rec_assignments : rec_assignments[i].orderId = oid}
    IN IF at = {} THEN <<>>
       ELSE rec_assignments[CHOOSE i \in at : \A j \in at : j <= i].courierId

\* order = next((o for o in orders_l if o["orderid"] == oid), None)
HasOrder(oid) == \E i \in DOMAIN rec_orders : rec_orders[i].orderid = oid
OrderOf(oid) ==
    LET at == {i \in DOMAIN rec_orders : rec_orders[i].orderid = oid}
    IN rec_orders[CHOOSE i \in at : \A j \in at : i <= j]

\* A lateness test that counts a scan in the very minute of the deadline.
IsLateOrOnTime(oid, ts) ==
    /\ HasOrder(oid)
    /\ OrderOf(oid).deadline.kind = "time"
    /\ ts.kind = "time"
    /\ ts.at >= OrderOf(oid).deadline.at

\* The lateness test of one row: both texts present, both parse, and the scan
\* is strictly after the deadline.
IsLate(oid, ts) ==
    /\ HasOrder(oid)
    /\ OrderOf(oid).deadline.kind # "blank"
    /\ ts.kind # "blank"
    /\ OrderOf(oid).deadline.kind = "time"
    /\ ts.kind = "time"
    /\ ts.at > OrderOf(oid).deadline.at

\* A test that takes an order without a planned courier for an unknown one.
IsUnplanned(oid) == PlannedCourier(oid) = <<>>

\* if oid not in order_ids
IsUnexpected(oid) == oid \notin order_ids

\* A test that also flags the scan of an order nobody was planned for.
IsMisassignedOrUnplanned(oid, cid) == PlannedCourier(oid) # cid

\* planned_cid = planned_by_order.get(oid)
\* if planned_cid and planned_cid != cid
IsMisassigned(oid, cid) ==
    /\ PlannedCourier(oid) # <<>>
    /\ PlannedCourier(oid) # cid

\* A delivered set that leaves out the scans without a time.
AddDeliveredIfTimed(oid, ts) ==
    IF ts.kind = "blank" THEN delivered_orders ELSE delivered_orders \cup {oid}

\* delivered_orders.add(oid)
AddDelivered(oid, ts) == delivered_orders \cup {oid}

\* One iteration of "for row in log_l".
ScanRow(row) ==
    /\ pc = "reconcile"
    /\ Len(log_rows) < MaxRows
    /\ log_rows' = Append(log_rows, row)
    /\ LET oid == CleanId(row.orderid)
           cid == Strip(row.courierid)
           ts == row.deliveredat
       IN IF oid = <<>>
          THEN UNCHANGED <<delivered_orders, unexpected, misassigned, late,
                           duplicate, seen_scan>>
          ELSE /\ unexpected' = IF IsUnexpected(oid)
                                THEN Append(unexpected, oid) ELSE unexpected
               /\ duplicate' = IF oid \in seen_scan
                               THEN Append(duplicate, oid) ELSE duplicate
               /\ seen_scan' = seen_scan \cup {oid}
               /\ delivered_orders' = AddDelivered(oid, ts)
               /\ misassigned' = IF IsMisassigned(oid, cid)
                                 THEN Append(misassigned, oid) ELSE misassigned
               /\ late' = IF IsLate(oid, ts) THEN Append(late, oid) ELSE late
    /\ UNCHANGED <<pc, rec_orders, rec_assignments, report, planVars, dedupVars>>

\* not_delivered = sorted(oid for oid in order_ids if oid not in delivered_orders)
not_delivered == SortedSet({oid \in order_ids : oid \notin delivered_orders})

\* The end of the log: the five sorted lists are returned.
ReconcileReturn ==
    /\ pc = "reconcile"
    /\ pc' = "reconciled"
    /\ report' = [unexpected |-> SortedSet(Range(unexpected)),
                  misassigned |-> SortedSet(Range(misassigned)),
                  late |-> SortedSet(Range(late)),
                  duplicate |-> SortedSet(Range(duplicate)),
                  notDelivered |-> not_delivered]
    /\ UNCHANGED <<rec_orders, rec_assignments, log_rows, delivered_orders,
                   unexpected, misassigned, late, duplicate, seen_scan,
                   planVars, dedupVars>>

InitReconcile ==
    /\ pc = "reconcile"
    /\ rec_orders \in RecOrderLists
    /\ rec_assignments \in RecAssignmentLists(rec_orders)
    /\ log_rows = <<>>
    /\ delivered_orders = {} /\ seen_scan = {}
    /\ unexpected = <<>> /\ misassigned = <<>> /\ late = <<>> /\ duplicate = <<>>
    /\ report = <<>>
    /\ PlanIdle /\ DedupIdle

NextReconcile ==
    \/ \E row \in ScanRows : ScanRow(row)
    \/ ReconcileReturn

SpecReconcile == InitReconcile /\ [][NextReconcile]_vars

\* ---------------------------------------------- properties: the planner
\* What a run has settled: every order taken, but the one whose weight raised.
Settled == IF pc = "raised" THEN 1..(Len(orders) - 1) ELSE DOMAIN orders
Roster == {couriers[i] : i \in DOMAIN couriers}
AssignmentsOf(k) ==
    {j \in DOMAIN assignments : assignments[j].orderId = orders[k].orderid}
UnassignedOf(k) == {j \in DOMAIN unassigned : unassigned[j] = orders[k].orderid}
IsAssigned(k) == AssignmentsOf(k) # {}
CourierOf(k) ==
    CHOOSE c \in Roster :
        \E j \in AssignmentsOf(k) : assignments[j].courierId = c.courierid

\* The sum of the weights of the orders before the k-th assigned to courier id.
RECURSIVE LoadBefore(_, _)
LoadBefore(id, k) ==
    IF k <= 1 THEN 0
    ELSE LoadBefore(id, k - 1)
         + (IF \E j \in AssignmentsOf(k - 1) : assignments[j].courierId = id
            THEN orders[k - 1].weight.val ELSE 0)

\* The four eligibility predicates, on the roster as a set.
IsCod(o) == Lower(o.paymenttype) = Lower(S_COD)
CoversZone(c, o) == \E i \in DOMAIN c.zonescovered : c.zonescovered[i] = o.city
TakesPayment(c, o) == IsCod(o) => c.acceptscod
Excludes(c, o) ==
    \E i \in DOMAIN c.exclusions : Lower(c.exclusions[i]) = Lower(o.producttype)
HasRoom(c, k) ==
    LoadBefore(c.courierid, k) + orders[k].weight.val <= c.dailycapacity
InZone(k) == {c \in Roster : CoversZone(c, orders[k])}
CodOk(k) == {c \in InZone(k) : TakesPayment(c, orders[k])}
ExclOk(k) == {c \in CodOk(k) : ~Excludes(c, orders[k])}
Survivors(k) == {c \in ExclOk(k) : HasRoom(c, k)}

\* C1: every order the run has settled is the orderId of exactly one
\* assignment or occurs exactly once in unassigned, never both, never neither.
C1_Exclusive ==
    \A k \in Settled :
        Cardinality(AssignmentsOf(k)) + Cardinality(UnassignedOf(k)) = 1

C1_Witness ==
    /\ pc = "plan"
    /\ Len(orders) = MaxOrders
    /\ \E k \in DOMAIN orders : IsAssigned(k)
    /\ \E k \in DOMAIN orders : UnassignedOf(k) # {}

\* C2: after every order, no courier's cumulative usage exceeds its declared
\* daily capacity.
C2_Capacity ==
    \A c \in Roster : capacity_usage[c.courierid] <= c.dailycapacity

\* An order turned away for capacity by a courier that would have had room
\* for it when idle.
C2_Witness ==
    \E k \in Settled :
        /\ UnassignedOf(k) # {}
        /\ unassigned_reasons[orders[k].orderid] = <<"Capacity exceeded">>
        /\ \E c \in ExclOk(k) :
               /\ capacity_usage[c.courierid] > 0
               /\ orders[k].weight.val <= c.dailycapacity

\* C3: every assignment is eligible: the courier covers the order's city, takes
\* COD when the order's payment is "cod" in any casing, and does not exclude
\* the order's product type in any casing.
C3_Eligible ==
    \A k \in Settled :
        IsAssigned(k) =>
            /\ CoversZone(CourierOf(k), orders[k])
            /\ TakesPayment(CourierOf(k), orders[k])
            /\ ~Excludes(CourierOf(k), orders[k])

C3_Witness ==
    \E k \in Settled :
        /\ IsAssigned(k)
        /\ IsCod(orders[k])
        /\ orders[k].producttype = S_fragile
        /\ \E c \in InZone(k) : ~c.acceptscod \/ Excludes(c, orders[k])

\* C4: an order is unassigned exactly when no courier survives the four
\* filters, and its one reason is that of the first filter, in the order
\* zone, COD, exclusion, capacity, that leaves no candidate.
FirstFailure(k) ==
    IF InZone(k) = {} THEN <<"Zone not covered">>
    ELSE IF CodOk(k) = {} THEN <<"COD not accepted">>
    ELSE IF ExclOk(k) = {}
    THEN <<"Excluded product type: ", orders[k].producttype>>
    ELSE <<"Capacity exceeded">>

C4_FirstFailure ==
    /\ \A k \in Settled :
        /\ UnassignedOf(k) # {} <=> Survivors(k) = {}
        /\ UnassignedOf(k) # {} =>
               /\ orders[k].orderid \in DOMAIN unassigned_reasons
               /\ unassigned_reasons[orders[k].orderid] = FirstFailure(k)
        /\ UnassignedOf(k) = {} => orders[k].orderid \notin DOMAIN unassigned_reasons

\* An order that two filters in a row would each have rejected, were they
\* applied to the whole roster: one courier fails COD alone, the other covers
\* the zone, takes COD and excludes the product.
C4_Witness ==
    \E k \in Settled :
        /\ UnassignedOf(k) # {}
        /\ unassigned_reasons[orders[k].orderid] =
               <<"Excluded product type: ", orders[k].producttype>>
        /\ \E c \in InZone(k) : ~TakesPayment(c, orders[k]) /\ ~Excludes(c, orders[k])

\* C5 as stated: the courier assigned is a survivor of least usage; among the
\* survivors tied on usage it has the smallest priority number; and a courier
\* that declares no priority is never chosen over a tied one that declares one.
Tied(c, s, k) == LoadBefore(c.courierid, k) = LoadBefore(s.courierid, k)
Declares(c) == c.priority # <<>>
C5_AsStated ==
    \A k \in Settled :
        IsAssigned(k) =>
            LET c == CourierOf(k)
            IN /\ c \in Survivors(k)
               /\ \A s \in Survivors(k) :
                      LoadBefore(c.courierid, k) <= LoadBefore(s.courierid, k)
               /\ \A s \in Survivors(k) :
                      Tied(c, s, k) /\ Declares(c) /\ Declares(s)
                          => c.priority[1] <= s.priority[1]
               /\ \A s \in Survivors(k) :
                      Tied(c, s, k) /\ Declares(s) => Declares(c)

\* C5 amended: a courier that declares no priority ranks as priority 10^9; it
\* is never chosen over a tied survivor that declares a priority below 10^9.
Rank(c) == IF Declares(c) THEN c.priority[1] ELSE DefaultPriority
C5_Selection ==
    \A k \in Settled :
        /\ IsAssigned(k) <=> Survivors(k) # {}
        /\ IsAssigned(k) =>
            LET c == CourierOf(k)
            IN /\ c \in Survivors(k)
               /\ \A s \in Survivors(k) :
                      LoadBefore(c.courierid, k) <= LoadBefore(s.courierid, k)
               /\ \A s \in Survivors(k) : Tied(c, s, k) => Rank(c) <= Rank(s)
               /\ \A s \in Survivors(k) :
                      Tied(c, s, k) /\ Declares(s) /\ s.priority[1] < DefaultPriority
                          => Declares(c)

\* A first order taken by the courier of better rank, both idle, and a second
\* taken by the other one, now the less loaded, though its rank is worse.
C5_Witness ==
    /\ Len(orders) >= 2 /\ 2 \in Settled
    /\ IsAssigned(1) /\ IsAssigned(2)
    /\ Cardinality(Survivors(1)) = 2 /\ Cardinality(Survivors(2)) = 2
    /\ CourierOf(1) # CourierOf(2)
    /\ Rank(CourierOf(1)) < Rank(CourierOf(2))

\* C6: usage starts at zero; an order that is assigned adds its weight to the
\* chosen courier's usage and leaves the others' alone; an order that is not
\* assigned leaves the mapping alone; usage never decreases.
C6_Accounting ==
    /\ \A id \in DOMAIN capacity_usage : capacity_usage[id] = 0
    /\ [][ LET k == Len(orders')
               o == orders'[k]
           IN /\ \A id \in DOMAIN capacity_usage :
                      capacity_usage'[id] >= capacity_usage[id]
              /\ IF Len(assignments') = Len(assignments) + 1
                 THEN LET a == assignments'[Len(assignments')]
                      IN /\ a.orderId = o.orderid
                         /\ capacity_usage' =
                                [capacity_usage EXCEPT
                                    ![a.courierId] = @ + o.weight.val]
                 ELSE /\ assignments' = assignments
                      /\ capacity_usage' = capacity_usage
       ]_vars

C6_Witness ==
    /\ Len(orders) >= 2 /\ 2 \in Settled
    /\ IsAssigned(1) /\ IsAssigned(2)
    /\ assignments[1].courierId = assignments[2].courierId
    /\ orders[1].weight.val # orders[2].weight.val

\* ------------------------------------------------- properties: dedup
\* The places in the input where an identifier comes for the first time.
FirstPlaces ==
    {i \in DOMAIN dedup_orders :
        \A j \in 1..(i - 1) : dedup_orders[j].orderid # dedup_orders[i].orderid}
FirstPlaceOf(id) ==
    CHOOSE i \in FirstPlaces : dedup_orders[i].orderid = id
Warned(id) ==
    \E w \in DOMAIN warnings :
        warnings[w] = <<"Conflicting address for order ", id>>

\* C7: the result holds one record per distinct identifier of the input, the
\* first input record with that identifier, in the order of first appearance.
C7_KeepsFirst ==
    /\ Len(seen) = Cardinality(FirstPlaces)
    /\ \A p \in DOMAIN seen :
           \E i \in FirstPlaces :
               /\ Cardinality({j \in FirstPlaces : j <= i}) = p
               /\ seen[p] = dedup_orders[i]

C7_Witness ==
    /\ Len(dedup_orders) >= 4
    /\ Len(seen) = 2
    /\ dedup_orders[1].orderid = dedup_orders[3].orderid
    /\ dedup_orders[1].address # dedup_orders[3].address
    /\ dedup_orders[2].orderid = dedup_orders[4].orderid
    /\ dedup_orders[2].orderid # dedup_orders[1].orderid

\* C8 as stated: an identifier has a warning exactly when two records of the
\* input share it and have differing non-blank addresses.
C8_AsStated ==
    \A id \in DedupIds :
        Warned(id) <=>
            \E i, j \in DOMAIN dedup_orders :
                /\ i < j
                /\ dedup_orders[i].orderid = id /\ dedup_orders[j].orderid = id
                /\ dedup_orders[i].address # <<>>
                /\ dedup_orders[j].address # <<>>
                /\ dedup_orders[i].address # dedup_orders[j].address

\* C8 amended: an identifier has a warning exactly when the first record with
\* it and a later record with it have differing non-blank addresses.
C8_Warning ==
    \A id \in DedupIds :
        Warned(id) <=>
            \E j \in DOMAIN dedup_orders :
                /\ dedup_orders[j].orderid = id
                /\ FirstPlaceOf(id) < j
                /\ dedup_orders[FirstPlaceOf(id)].address # <<>>
                /\ dedup_orders[j].address # <<>>
                /\ dedup_orders[FirstPlaceOf(id)].address # dedup_orders[j].address

\* Three records of one identifier: the second has no address and brings no
\* warning, the third differs from the first and brings one.
C8_Witness ==
    /\ Len(dedup_orders) >= 3
    /\ \A i \in 1..3 : dedup_orders[i].orderid = dedup_orders[1].orderid
    /\ dedup_orders[1].address # <<>>
    /\ dedup_orders[2].address = <<>>
    /\ dedup_orders[3].address \notin {<<>>, dedup_orders[1].address}
    /\ Len(warnings) = 1
    /\ Warned(dedup_orders[1].orderid)

\* --------------------------------------------- properties: reconcile
\* The identifier a scan row carries is the cleaned one.
ScannedIds == {CleanId(log_rows[i].orderid) : i \in DOMAIN log_rows}
KnownIds == {rec_orders[i].orderid : i \in DOMAIN rec_orders} \ {<<>>}

\* C9: a known identifier is in notDelivered exactly when no scan row carries
\* it; notDelivered holds known identifiers only, sorted, none twice.
C9_NotDelivered ==
    pc = "reconciled" =>
        /\ \A id \in KnownIds :
               InList(id, report.notDelivered) <=> id \notin ScannedIds
        /\ Range(report.notDelivered) \subseteq KnownIds
        /\ \A i, j \in DOMAIN report.notDelivered :
               i < j => StrLess(report.notDelivered[i], report.notDelivered[j])

C9_Witness ==
    /\ pc = "reconciled"
    /\ Len(report.notDelivered) = 1
    /\ Cardinality(KnownIds) = 2
    /\ Len(log_rows) >= 2
    /\ \E i \in DOMAIN log_rows : log_rows[i].deliveredat = TimeBlank

\* C10 as stated: every known identifier is in exactly one of misassigned,
\* late, duplicate, unexpected and notDelivered.
ListsHolding(id) ==
    {f \in {"unexpected", "misassigned", "late", "duplicate", "notDelivered"} :
        InList(id, report[f])}
C10_AsStated ==
    pc = "reconciled" =>
        \A id \in KnownIds : Cardinality(ListsHolding(id)) = 1

\* C10 amended: every known identifier is either scanned or in notDelivered,
\* never both, never neither; one in notDelivered is in no other list; a
\* scanned one is in any number of misassigned, late and duplicate, and never
\* in unexpected.
C10_Partition ==
    pc = "reconciled" =>
        \A id \in KnownIds :
            /\ "unexpected" \notin ListsHolding(id)
            /\ IF id \in ScannedIds
               THEN "notDelivered" \notin ListsHolding(id)
               ELSE ListsHolding(id) = {"notDelivered"}

\* One scanned order that is both misassigned and late, another that is
\* scanned and in no list at all.
C10_Witness ==
    /\ pc = "reconciled"
    /\ \E id \in KnownIds : {"misassigned", "late"} \subseteq ListsHolding(id)
    /\ \E id \in KnownIds : id \in ScannedIds /\ ListsHolding(id) = {}

\* The couriers the plan names for an identifier, and the scan rows of it.
PlannedIds == {rec_assignments[i].orderId : i \in DOMAIN rec_assignments}
PlanFor(id) ==
    {rec_assignments[i].courierId :
        i \in {j \in DOMAIN rec_assignments : rec_assignments[j].orderId = id}}
RowsFor(id) == {i \in DOMAIN log_rows : CleanId(log_rows[i].orderid) = id}
ReportIds == (ScannedIds \cup KnownIds \cup PlannedIds) \ {<<>>}

\* C11: a non-blank identifier is in misassigned exactly when the plan has
\* an assignment for it and some scan row of it carries a courier (trimmed)
\* other than the planned one; so an identifier scanned without a planned
\* assignment, or scanned by its planned courier only, is not in misassigned.
C11_Misassigned ==
    pc = "reconciled" =>
        /\ \A id \in ReportIds :
               InList(id, report.misassigned) <=>
                   /\ PlanFor(id) # {}
                   /\ \E i \in RowsFor(id) :
                          Strip(log_rows[i].courierid) \notin PlanFor(id)
        /\ Range(report.misassigned) \subseteq ReportIds

\* An order scanned twice, by its planned courier and by another one, is in
\* misassigned.
C11_Witness ==
    /\ pc = "reconciled"
    /\ \E id \in ReportIds :
           /\ InList(id, report.misassigned)
           /\ Cardinality(RowsFor(id)) = 2
           /\ \E i \in RowsFor(id) : log_rows[i].courierid \in PlanFor(id)

\* The deadlines of the orders stored under an identifier, and the rows of it
\* whose time parses to a minute after one that parses.
DeadlinesOf(id) ==
    {rec_orders[i].deadline :
        i \in {j \in DOMAIN rec_orders : rec_orders[j].orderid = id}}
LateRows(id) ==
    {i \in RowsFor(id) :
        /\ log_rows[i].deliveredat.kind = "time"
        /\ \E d \in DeadlinesOf(id) :
               d.kind = "time" /\ log_rows[i].deliveredat.at > d.at}

\* C12: a non-blank identifier is in late exactly when some scan row of it
\* has a time and its order a deadline that both parse, the time strictly
\* after the deadline; and the other four lists are what the identifiers and
\* couriers of the rows alone make them, whatever the rows' times are.
C12_Late ==
    pc = "reconciled" =>
        /\ \A id \in ReportIds : InList(id, report.late) <=> LateRows(id) # {}
        /\ Range(report.late) \subseteq ReportIds
        /\ report.unexpected = SortedSet((ScannedIds \ {<<>>}) \ KnownIds)
        /\ report.duplicate =
               SortedSet({id \in ReportIds : Cardinality(RowsFor(id)) >= 2})
        /\ report.misassigned =
               SortedSet({id \in ReportIds :
                   /\ PlanFor(id) # {}
                   /\ \E i \in RowsFor(id) :
                          Strip(log_rows[i].courierid) \notin PlanFor(id)})
        /\ report.notDelivered = SortedSet(KnownIds \ ScannedIds)

\* An order scanned in the minute of its deadline and again by another
\* courier with a time that does not parse: duplicate and misassigned, not
\* late.
C12_Witness ==
    /\ pc = "reconciled"
    /\ \E id \in KnownIds :
           /\ \E i \in RowsFor(id) : log_rows[i].deliveredat \in DeadlinesOf(id)
           /\ \E i \in RowsFor(id) :
                  /\ log_rows[i].deliveredat.kind \in {"junk", "blank"}
                  /\ log_rows[i].courierid \notin PlanFor(id)
           /\ ListsHolding(id) = {"duplicate", "misassigned"}

\* C13 as stated: no order makes the planner raise, whatever its weight is,
\* and every order taken so far is settled, assigned or unassigned, once.
C13_NeverAborts ==
    /\ pc # "raised"
    /\ \A k \in DOMAIN orders :
           Cardinality(AssignmentsOf(k)) + Cardinality(UnassignedOf(k)) = 1

====
